---- MODULE Spec2Model ----
(***************************************************************************)
(* Model of src/web/zero_shot_tab.py (VenusFactory zero-shot mutation tab): *)
(* the scorer invocation, the rank/percentile binner and matrix builder,   *)
(* the prompt builder, the export bundle and the per-tab prediction        *)
(* handler.                                                                 *)
(*                                                                          *)
(* Text is modelled as a sequence of one-character strings, so that         *)
(* indexing, slicing, lower-casing, digit tests and int() are computed.     *)
(* Scores are integers counting units of 0.0001, so that round(score, 3)    *)
(* is computed.  A pandas/numpy NaN matrix cell is the empty tuple and a    *)
(* set cell holding v is the one-element tuple <<v>>.                       *)
(***************************************************************************)
EXTENDS Integers, Sequences, FiniteSets, TLC

VARIABLES
    clock,      \* int(time.time()), in seconds
    getenv,     \* os.getenv("DEEPSEEK_API_KEY"): None or Some(value)
    fs,         \* the files on disk
    pc,         \* per tab: where its handle_prediction_with_ai run stands
    run,        \* per tab: the locals of the run in flight
    ui,         \* per tab: the values of the output components
    last,       \* per tab: what the latest run did (history)
    written,    \* per tab: the paths its latest run wrote (history)
    overlap,    \* whether the latest runs of the two tabs overlapped in time
    runs,       \* number of runs started
    table,      \* harness: the results table handed to the pure functions
    summary,    \* harness: the capped Matrix Builder call, [cap, data]
    full,       \* harness: the uncapped Matrix Builder call
    prompt      \* harness: the generate_mutation_ai_prompt call

appvars == <<clock, getenv, fs, pc, run, ui, last, written, overlap, runs>>
fnvars == <<table, summary, full, prompt>>
vars == <<appvars, fnvars>>

----------------------------------------------------------------------------
\* Bounds of the model

\* longest freely composed results table (rows)
MaxRows == 3
\* longest generated scan table (one row per residue position)
MaxScanLen == 100
\* the clock runs from 0 to MaxClock
MaxClock == 1
\* number of prediction runs started, over both tabs
MaxRuns == 2

----------------------------------------------------------------------------
\* Text helpers (Python str operations)

\* a function over 1..n as a list (its elements computed once)
List(f) == <<>> \o f

UpperChars == <<"A","B","C","D","E","F","G","H","I","J","K","L","M",
                "N","O","P","Q","R","S","T","U","V","W","X","Y","Z">>
LowerChars == <<"a","b","c","d","e","f","g","h","i","j","k","l","m",
                "n","o","p","q","r","s","t","u","v","w","x","y","z">>
DigitChars == <<"0","1","2","3","4","5","6","7","8","9">>

\* str.lower() on one character
LowerChar(c) ==
    IF \E i \in 1..26 : UpperChars[i] = c
    THEN LowerChars[CHOOSE i \in 1..26 : UpperChars[i] = c]
    ELSE c

\* str.lower()
Lower(s) == List([i \in 1..Len(s) |-> LowerChar(s[i])])

\* `sub in s` for strings
Contains(sub, s) ==
    \E i \in 1..(Len(s) - Len(sub) + 1) : SubSeq(s, i, i + Len(sub) - 1) = sub

\* U+00B2 SUPERSCRIPT TWO: a character str.isdigit() accepts and int() rejects
SupTwo == "U+00B2"

\* str.isdigit() on one character: the decimal digits and the other
\* characters of Unicode digit type, of which SupTwo is one
IsDigitChar(c) == (\E i \in 1..10 : DigitChars[i] = c) \/ c = SupTwo

\* int(s) returns: every character is a decimal digit (ASCII digits here);
\* otherwise it raises ValueError
IsDecimal(s) == Len(s) > 0 /\ \A i \in 1..Len(s) : \E d \in 1..10 : DigitChars[d] = s[i]

\* str.isdigit(): non-empty and every character a digit
IsDigit(s) == Len(s) > 0 /\ \A i \in 1..Len(s) : IsDigitChar(s[i])

DigitVal(c) == (CHOOSE i \in 1..10 : DigitChars[i] = c) - 1

\* int(s) for a string of decimal digits
RECURSIVE StrToInt(_)
StrToInt(s) ==
    IF Len(s) = 0 THEN 0
    ELSE 10 * StrToInt(SubSeq(s, 1, Len(s) - 1)) + DigitVal(s[Len(s)])

\* f"{n}" for n >= 0
RECURSIVE IntToStr(_)
IntToStr(n) ==
    IF n < 10 THEN <<DigitChars[n + 1]>>
    ELSE IntToStr(n \div 10) \o <<DigitChars[(n % 10) + 1]>>

S_mutant   == <<"m","u","t","a","n","t">>
S_score    == <<"s","c","o","r","e">>
S_mutation == <<"m","u","t","a","t","i","o","n">>
S_esmScore == <<"e","s","m","1","v","_","S","c","o","r","e">>
S_pred     == <<"p","r","e","d">>

\* A cell of the mutant column that is not a str (a float NaN read from an
\* empty CSV field).  It cannot be confused with text: text is made of
\* one-character strings.
NaNCell == <<"NaN">>

\* Python None / Some(v) for optional arguments and results
None == <<>>
Some(v) == <<v>>

\* numpy NaN (the unset sentinel of the matrices)
NaN == <<>>

Min(a, b) == IF a < b THEN a ELSE b
Max(a, b) == IF a > b THEN a ELSE b

----------------------------------------------------------------------------
\* Results tables (pandas DataFrame): column names and rows of cells

DataFrame(cols, rows) == [columns |-> cols, rows |-> rows]

\* pd.DataFrame()
EmptyDataFrame == DataFrame(<<>>, <<>>)

\* DataFrame.empty: no rows or no columns
IsEmpty_NoColumnsOnly(df) == Len(df.columns) = 0

IsEmpty(df) == Len(df.rows) = 0 \/ Len(df.columns) = 0

HasColumn(df, name) == \E i \in 1..Len(df.columns) : df.columns[i] = name

ColIndex(df, name) ==
    CHOOSE i \in 1..Len(df.columns) :
        /\ df.columns[i] = name
        /\ \A j \in 1..(i - 1) : df.columns[j] # name

\* next((col for col in df.columns if 'score' in col.lower()), None)
ScoreColumns(df) ==
    {i \in 1..Len(df.columns) : Contains(S_score, Lower(df.columns[i]))}

FirstScoreColumn(df) ==
    IF ScoreColumns(df) = {} THEN None
    ELSE Some(CHOOSE i \in ScoreColumns(df) : \A j \in ScoreColumns(df) : i <= j)

----------------------------------------------------------------------------
\* prepare_plotly_heatmap_data: Rank-Percentile Binner and Matrix Builder

\* list("ACDEFGHIKLMNPQRSTVWY")
x_labels == <<"A","C","D","E","F","G","H","I","K","L",
              "M","N","P","Q","R","S","T","V","W","Y">>

\* x_map.get(lbl): the column of a substituted residue, 0 when not canonical
x_map(aa) ==
    IF \E i \in 1..Len(x_labels) : x_labels[i] = aa
    THEN CHOOSE i \in 1..Len(x_labels) : x_labels[i] = aa
    ELSE 0

\* lambda m: isinstance(m, str) and len(m) > 2 and m[0] != m[-1]
\*           and m[1:-1].isdigit()
IsValidMutation(m) ==
    /\ m # NaNCell
    /\ Len(m) > 2
    /\ m[1] # m[Len(m)]
    /\ IsDigit(SubSeq(m, 2, Len(m) - 1))

\* mutant: dense ranking (method='dense')
RankMin_Dense(scores, k) ==
    1 + Cardinality({scores[j] : j \in {i \in 1..Len(scores) : scores[i] > scores[k]}})

\* Series.rank(method='min', ascending=False).astype(int): one plus the
\* number of scores strictly greater
RankMin(scores, k) ==
    1 + Cardinality({j \in 1..Len(scores) : scores[j] > scores[k]})

\* np.ceil(rank / (n / 10)).  The float quotient rank / (n / 10) has the
\* same ceiling as the exact 10 * rank / n for every 1 <= rank <= n < 400
\* (checked against IEEE-754 double arithmetic), which covers the tables of
\* this model.
CeilRankOverWidth(rank, n) == (10 * rank + n - 1) \div n

\* mutant: the bin is not inverted
InvertedRankBin_NotInverted(rank, n) == Min(CeilRankOverWidth(rank, n), 10)

\* mutant: inverted against 10 instead of 11
InvertedRankBin_OffByOne(rank, n) == 10 - Min(CeilRankOverWidth(rank, n), 10)

\* 11 - np.ceil(rank / (len / 10)).clip(upper=10)
InvertedRankBin(rank, n) == 11 - Min(CeilRankOverWidth(rank, n), 10)

\* round(x, 3) on a score counted in units of 0.0001 (no score of the model
\* lies exactly half way)
Round3(x) == ((x + 5) \div 10) * 10

\* the members of S in increasing order
Ascending(S) ==
    LET In(x) == x \in S
        lo == CHOOSE x \in S : \A y \in S : x <= y
        hi == CHOOSE x \in S : \A y \in S : y <= x
    IN  SelectSeq(List([i \in 1..(hi - lo + 1) |-> lo + i - 1]), In)

\* sorted(set), for a set of integers
Sorted(S) ==
    IF S = {} THEN <<>>
    ELSE CHOOSE lst \in {Ascending(members) : members \in {S}} : TRUE

\* lst[:k]
FirstN(lst, k) ==
    IF k >= 0 THEN SubSeq(lst, 1, Min(k, Len(lst)))
    ELSE SubSeq(lst, 1, Max(Len(lst) + k, 0))

\* lst[-k:] for k > 0 (DataFrame.tail(k))
LastN(lst, k) == SubSeq(lst, Max(Len(lst) - k, 0) + 1, Len(lst))

\* the 'rank', 'inverted_rank_bin' and 'position' columns added to the valid
\* rows (lines 149-151)
RankRows(rows, mcol, scol) ==
    LET scores == List([k \in 1..Len(rows) |-> rows[k][scol]])
    IN  List([k \in 1..Len(rows) |->
            [mutant            |-> rows[k][mcol],
             score             |-> rows[k][scol],
             rank              |-> RankMin(scores, k),
             inverted_rank_bin |-> InvertedRankBin(RankMin(scores, k), Len(rows)),
             position          |-> StrToInt(SubSeq(rows[k][mcol], 2,
                                                   Len(rows[k][mcol]) - 1))]])

\* valid_mutations_df with its 'rank', 'inverted_rank_bin' and 'position'
\* columns, rows in table order (lines 147-151)
RankedFrame(df, mcol, scol) ==
    LET Valid(r) == IsValidMutation(r[mcol])
    IN  RankRows(SelectSeq(df.rows, Valid), mcol, scol)

\* mutant: the cap is ignored
CapPositions_Ignored(all_positions, max_residues) == all_positions

\* sorted_positions[:max_residues] when a cap is given (lines 153-154)
CapPositions(all_positions, max_residues) ==
    IF max_residues = None THEN all_positions
    ELSE FirstN(all_positions, max_residues[1])

\* mutant: rank and bin are computed again over the rows kept by the cap
FilterToPositions_Reranked(frame, sorted_positions) ==
    LET Kept(row) == \E i \in 1..Len(sorted_positions) :
                        sorted_positions[i] = row.position
        kept   == SelectSeq(frame, Kept)
        scores == [k \in 1..Len(kept) |-> kept[k].score]
    IN  [k \in 1..Len(kept) |->
            [kept[k] EXCEPT
                !.rank = RankMin(scores, k),
                !.inverted_rank_bin = InvertedRankBin(RankMin(scores, k), Len(kept))]]

\* valid_mutations_df[valid_mutations_df['position'].isin(sorted_positions)]
\* (line 155); the rows keep the rank and bin they already have
FilterToPositions(frame, sorted_positions) ==
    LET Kept(row) == \E i \in 1..Len(sorted_positions) :
                        sorted_positions[i] = row.position
    IN  SelectSeq(frame, Kept)

\* [x] * n
RECURSIVE Repeat(_, _)
Repeat(x, n) == IF n <= 0 THEN <<>> ELSE Append(Repeat(x, n - 1), x)

\* mutant: the matrices start at zero instead of NaN
NaNMatrix_Zeros(nrows, ncols) == Repeat(Repeat(<<0>>, ncols), nrows)

\* np.full((rows, cols), np.nan)
NaNMatrix(nrows, ncols) == Repeat(Repeat(NaN, ncols), nrows)

\* ndarray.shape of a 2-D array
Shape(m) == <<Len(m), IF Len(m) = 0 THEN 0 ELSE Len(m[1])>>

\* y_map: the row of a position, 0 when the position is not retained
y_map(sorted_positions, pos) ==
    IF \E i \in 1..Len(sorted_positions) : sorted_positions[i] = pos
    THEN CHOOSE i \in 1..Len(sorted_positions) : sorted_positions[i] = pos
    ELSE 0

\* the row that writes cell (y_idx, x_idx) in the loop of lines 162-166: the
\* last row of the frame at that position with that substituted residue
\* (later rows overwrite), as <<row>>, or <<>> when no row writes the cell
LastWriter(at, x_idx) ==
    LET hits == {k \in 1..Len(at) : at[k].mutant[Len(at[k].mutant)] = x_labels[x_idx]}
    IN  IF hits = {} THEN <<>>
        ELSE <<at[CHOOSE k \in hits : \A j \in hits : j <= k]>>

\* per cell of one row of the matrices, the row of the frame that writes it
\* (at holds the rows of the frame at that position)
WritersAt(at) == List([j \in 1..Len(x_labels) |-> LastWriter(at, j)])

\* per cell of the matrices, the row of the frame that writes it
Writers(frame, sorted_positions) ==
    List([i \in 1..Len(sorted_positions) |->
        LET At(row) == row.position = sorted_positions[i]
        IN  WritersAt(SelectSeq(frame, At))])

\* what a row writes into the matrix of column col: its bin into z_data, its
\* rank into rank_matrix, its rounded score into score_matrix
CellValue(row, col) ==
    IF col = "score" THEN Round3(row.score) ELSE row[col]

\* one matrix after the loop: the value its writer gives to a cell, or the
\* value the cell has in blank when no row writes it
Filled(writers, blank, col) ==
    List([i \in 1..Len(writers) |->
        List([j \in 1..Len(writers[i]) |->
            IF writers[i][j] = <<>> THEN blank[i][j]
            ELSE <<CellValue(writers[i][j][1], col)>>])])

\* the loop of lines 162-166 over the three matrices: each row writes its
\* bin, rank and rounded score at (y_map[pos], x_map[mut_aa])
FillCells(writers, blank) ==
    [z_data       |-> Filled(writers, blank, "inverted_rank_bin"),
     rank_matrix  |-> Filled(writers, blank, "rank"),
     score_matrix |-> Filled(writers, blank, "score")]

\* wt_map.get(pos, '?'): the wild type of the last row at the position
wt_map(frame, pos) ==
    LET at == {k \in 1..Len(frame) : frame[k].position = pos}
    IN  IF at = {} THEN "?"
        ELSE frame[CHOOSE k \in at : \A j \in at : j <= k].mutant[1]

\* The value returned (or the exception raised) by a call
HeatmapData(tag, xs, ys, z, r, s, col) ==
    [tag |-> tag, x_labels |-> xs, y_labels |-> ys, z_data |-> z,
     rank_matrix |-> r, score_matrix |-> s, score_col |-> col,
     frame |-> <<>>, positions |-> <<>>]

\* (None,) * 6
NoneTuple == HeatmapData("none", <<>>, <<>>, <<>>, <<>>, <<>>, <<>>)

\* .str[1:-1].astype(int) on the valid rows raises ValueError (lines 151, 195)
\* when a position passed isdigit() and is not a decimal number
AstypeIntRaises(df, mcol) ==
    \E k \in 1..Len(df.rows) :
        /\ IsValidMutation(df.rows[k][mcol])
        /\ ~IsDecimal(SubSeq(df.rows[k][mcol], 2, Len(df.rows[k][mcol]) - 1))

ValueErrorRaised == HeatmapData("ValueError", <<>>, <<>>, <<>>, <<>>, <<>>, <<>>)

\* df['mutant'] on a table without that column
KeyErrorRaised == HeatmapData("KeyError", <<>>, <<>>, <<>>, <<>>, <<>>, <<>>)

\* ([], [], np.array([[]]), np.array([[]]), np.array([[]]), score_col)
EmptyTuple(col) == HeatmapData("empty", <<>>, <<>>, << <<>> >>, << <<>> >>, << <<>> >>, col)

\* lines 156-167: labels and matrices for the retained positions and the
\* rows kept at them.  Besides the returned tuple the record keeps the ranked
\* frame (before the cap) and the retained positions.
Matrices(frame, sorted_positions, kept_frame, score_col) ==
    LET y_labels == List([i \in 1..Len(sorted_positions) |->
                        <<wt_map(kept_frame, sorted_positions[i])>>
                            \o IntToStr(sorted_positions[i])])
        mats == FillCells(Writers(kept_frame, sorted_positions),
                          NaNMatrix(Len(sorted_positions), Len(x_labels)))
    IN  [HeatmapData("ok", x_labels, y_labels, mats.z_data,
                     mats.rank_matrix, mats.score_matrix, score_col)
         EXCEPT !.frame = frame, !.positions = sorted_positions]

\* lines 154-155: the frame cut down to the retained positions when a cap is
\* given
Retained(frame, sorted_positions, max_residues, score_col) ==
    Matrices(frame, sorted_positions,
             IF max_residues = None THEN frame
             ELSE FilterToPositions(frame, sorted_positions),
             score_col)

\* lines 152-167, for the ranked frame of the valid rows
Ranked(frame, max_residues, score_col) ==
    IF Len(frame) = 0 THEN EmptyTuple(score_col)
    ELSE Retained(frame,
                  CapPositions(Sorted({frame[k].position : k \in 1..Len(frame)}),
                               max_residues),
                  max_residues, score_col)

\* prepare_plotly_heatmap_data(df, max_residues); max_residues is None or
\* Some(K)
prepare_plotly_heatmap_data(df, max_residues) ==
    IF FirstScoreColumn(df) = None THEN NoneTuple
    ELSE IF ~HasColumn(df, S_mutant) THEN KeyErrorRaised
    ELSE IF AstypeIntRaises(df, ColIndex(df, S_mutant)) THEN ValueErrorRaised
    ELSE Ranked(RankedFrame(df, ColIndex(df, S_mutant), FirstScoreColumn(df)[1]),
                max_residues, df.columns[FirstScoreColumn(df)[1]])

\* get_total_residues_count(df): -1 stands for the KeyError of df['mutant'],
\* -2 for the ValueError of astype(int)
get_total_residues_count(df) ==
    IF IsEmpty(df) THEN 0
    ELSE IF ~HasColumn(df, S_mutant) THEN -1
    ELSE IF AstypeIntRaises(df, ColIndex(df, S_mutant)) THEN -2
    ELSE
        LET mcol == ColIndex(df, S_mutant)
            Valid(r) == IsValidMutation(r[mcol])
            valid == SelectSeq(df.rows, Valid)
        IN  Cardinality({StrToInt(SubSeq(valid[k][mcol], 2, Len(valid[k][mcol]) - 1)) :
                            k \in 1..Len(valid)})

----------------------------------------------------------------------------
\* generate_mutation_ai_prompt: Report Prompt Builder

\* mutant: ten percent, as the docstring says
FivePercentCount_TenPercent(num_rows) == Max(1, num_rows \div 10)

\* max(1, int(num_rows * 0.05)); the float product num_rows * 0.05 truncates
\* to num_rows \div 20 for every num_rows < 100000 (checked against IEEE-754
\* double arithmetic)
FivePercentCount(num_rows) == Max(1, num_rows \div 20)

\* top_count and lowest_count (lines 86-92)
SliceCounts(num_rows) ==
    IF num_rows < 5
    THEN [top_count |-> num_rows, lowest_count |-> 0]
    ELSE [top_count |-> FivePercentCount(num_rows),
          lowest_count |-> FivePercentCount(num_rows)]

\* frame[[mutant_col, score_col]]
Project(rows, mcol, scol) ==
    List([k \in 1..Len(rows) |-> <<rows[k][mcol], rows[k][scol]>>])

\* The prompt is kept as the parts interpolated into it: the model name, the
\* score column name, the rows of the top table and the rows of the bottom
\* table, or lowest_na when the bottom is rendered as "N/A".
generate_mutation_ai_prompt(results_df, model_name) ==
    LET cols == results_df.columns
        nocol == [tag |-> "None", model_name |-> model_name, score_col |-> <<>>,
                  top |-> <<>>, lowest |-> <<>>, lowest_na |-> FALSE]
    IN
    IF Len(cols) = 0 THEN nocol
    ELSE
        LET mcol == IF HasColumn(results_df, S_mutant)
                    THEN ColIndex(results_df, S_mutant) ELSE 1
            sc   == FirstScoreColumn(results_df)
        IN
        IF sc = None /\ Len(cols) <= 1 THEN nocol
        ELSE
            LET scol   == IF sc # None THEN sc[1] ELSE 2
                counts == SliceCounts(Len(results_df.rows))
                top_mutations    == FirstN(results_df.rows, counts.top_count)
                lowest_mutations ==
                    IF counts.lowest_count > 0
                    THEN LastN(results_df.rows, counts.lowest_count)
                    ELSE <<>>
            IN  [tag        |-> "prompt",
                 model_name |-> model_name,
                 score_col  |-> cols[scol],
                 top        |-> Project(top_mutations, mcol, scol),
                 lowest     |-> Project(lowest_mutations, mcol, scol),
                 lowest_na  |-> Len(lowest_mutations) = 0]

\* max_residues=40 of the summary view (lines 255, 311)
SummaryCap == 40

----------------------------------------------------------------------------
\* generate_plotly_heatmap and the figures shown in the plot output

\* ndarray.size
Size(m) == Shape(m)[1] * Shape(m)[2]

\* A figure is kept as its layout (title, height), the view it was built
\* for, its row labels and the number of cells of its trace; the cells
\* themselves are the matrices of prepare_plotly_heatmap_data for the same
\* table and cap.
Figure(kind, title, shown, d) ==
    [kind |-> kind, title |-> title, shown |-> shown,
     y |-> d.y_labels,
     cells |-> IF kind = "heatmap" THEN Size(d.z_data) ELSE 0,
     height |-> IF kind = "heatmap"
                THEN Max(400, Min(8000, 30 * Len(d.y_labels) + shown.height_base))
                ELSE 0]

NoShown == [partial |-> FALSE, height_base |-> 0, of |-> None]

\* go.Figure()
BlankFigure == Figure("figure", "", NoShown, NoneTuple)

\* go.Figure(layout={'title': title}), go.Figure().update_layout(title=title)
TitledFigure(title) == Figure("figure", title, NoShown, NoneTuple)

\* generate_plotly_heatmap(*data[:5], is_partial, total_residues); the title
\* is "Prediction Heatmap", followed by " (Showing first n of total
\* residues)" when shown.of is Some(total)
generate_plotly_heatmap(d, is_partial, total_residues) ==
    IF d.tag = "none" \/ Size(d.z_data) = 0
    THEN TitledFigure("No data to display")
    ELSE Figure("heatmap", "Prediction Heatmap",
                [partial     |-> is_partial,
                 height_base |-> IF is_partial THEN 150 ELSE 200,
                 of |-> IF is_partial /\ total_residues # 0
                           /\ total_residues > Len(d.y_labels)
                        THEN Some(total_residues) ELSE None],
                d)

----------------------------------------------------------------------------
\* Files.  A path is kept as the f-string that builds it and the values
\* interpolated into it; two paths are the same file exactly when these
\* agree (model_type is "sequence" or "structure", ts a number of seconds).

ModelTypes == {"sequence", "structure"}

Path(dir, pattern, model_type, ts) ==
    [dir |-> dir, pattern |-> pattern, model_type |-> model_type, ts |-> ts]

\* f"temp_{model_type}_{int(time.time())}.csv" (line 132)
OutputCsvPath(model_type, ts) ==
    Path(".", "temp_{model_type}_{ts}.csv", model_type, ts)

\* temp_dir / f"temp_{model_type}_results_{run_timestamp}.csv" (line 283)
CsvPath(model_type, ts) ==
    Path("temp_outputs", "temp_{model_type}_results_{ts}.csv", model_type, ts)

\* temp_dir / f"temp_{model_type}_heatmap_{run_timestamp}.html" (line 285)
HeatmapPath(model_type, ts) ==
    Path("temp_outputs", "temp_{model_type}_heatmap_{ts}.html", model_type, ts)

\* temp_dir / f"temp_ai_report_{run_timestamp}.md" (line 290): the model
\* type is not part of the name
ReportPath(model_type, ts) ==
    Path("temp_outputs", "temp_ai_report_{ts}.md", "", ts)

\* temp_dir / f"prediction_{model_type}_results_{run_timestamp}.zip" (line 294)
ZipPath(model_type, ts) ==
    Path("temp_outputs", "prediction_{model_type}_results_{ts}.zip", model_type, ts)

\* The file system: per kind of file, the set of <<path, content>> of the
\* files that exist.
NoFiles == [csv |-> {}, html |-> {}, md |-> {}, zip |-> {}]

Exists(files, path) == \E f \in files : f[1] = path
Read(files, path) == (CHOOSE f \in files : f[1] = path)[2]
Write(files, path, content) == {f \in files : f[1] # path} \cup {<<path, content>>}

\* os.path.exists(src) for any kind of file
PathExists(disk, path) ==
    \/ Exists(disk.csv, path) \/ Exists(disk.html, path)
    \/ Exists(disk.md, path) \/ Exists(disk.zip, path)

\* create_zip_archive(files_to_zip, zip_filename): the archive holds the
\* entry of every source that exists; an entry is kept as its archive name
\* and the source it was read from.  files_to_zip is a set of <<src, arc>>.
create_zip_archive(disk, files_to_zip, zip_filename) ==
    [disk EXCEPT !.zip = Write(disk.zip, zip_filename,
        {[arcname |-> e[2], src |-> e[1]] : e \in {x \in files_to_zip : PathExists(disk, x[1])}})]

----------------------------------------------------------------------------
\* get_api_key and call_ai_api

\* str.strip() for blanks
RECURSIVE Strip(_)
Strip(s) ==
    IF Len(s) = 0 THEN s
    ELSE IF s[1] = " " THEN Strip(SubSeq(s, 2, Len(s)))
    ELSE IF s[Len(s)] = " " THEN Strip(SubSeq(s, 1, Len(s) - 1))
    ELSE s

\* AI_MODELS.keys(), the choices of the AI model dropdown
AIProviders == {"DeepSeek"}

\* get_api_key(ai_provider, user_input_key); env is os.getenv of the
\* provider's variable: None, or Some(value) (the value may be empty)
get_api_key(ai_provider, user_input_key, env) ==
    IF Len(user_input_key) > 0 /\ Len(Strip(user_input_key)) > 0
    THEN Some(Strip(user_input_key))
    ELSE IF ai_provider = "DeepSeek" /\ env # None /\ Len(env[1]) > 0
    THEN env
    ELSE None

\* Report texts are kept as <<first character, rest>>, so that
\* str.startswith is computed on them.  "U+274C" stands for the cross mark
\* character the placeholders begin with.
NotEnabledText == <<"A", "I analysis was not enabled.">>
NoApiKeyText ==
    <<"U+274C", " No API key found. Please provide one or set the environment variable.">>
ApiFailedText == <<"U+274C", " API call failed: {str(e)}">>

\* what response.json()["choices"][0]["message"]["content"] may hold
ApiReplies == { <<"#", " Executive Summary ...">>, <<"U+274C", " I cannot analyse this.">> }

\* call_ai_api(config, prompt): reply is None when the request raised
\* (network, HTTP status, malformed body), else Some(content)
call_ai_api(reply) == IF reply = None THEN ApiFailedText ELSE reply[1]

\* not ai_summary.startswith(cross mark) and
\* not ai_summary.startswith("AI analysis was not enabled") (line 289)
ReportIsWritten(ai_summary) ==
    /\ ai_summary[1] # "U+274C"
    /\ ~(ai_summary[1] = "A" /\ ai_summary[2] = NotEnabledText[2])

----------------------------------------------------------------------------
\* run_zero_shot_prediction

\* MODEL_MAPPING.keys()
MODEL_MAPPING == {"ESM-1v", "ESM2-650M", "SaProt", "ESM-IF1", "MIF-ST",
                  "ProSST-2048", "ProSSN", "ESM-1b"}

Status(msg, detail) == [msg |-> msg, detail |-> detail]

\* The part of run_zero_shot_prediction after subprocess.run (lines 136-142).
\* how is "launch_error" (subprocess.run raised OSError), "nonzero"
\* (CalledProcessError) or "clean".  pd.read_csv raises on a file without
\* columns (EmptyDataError), which the except clause reports as well.
PredictionResult(how, disk, output_csv) ==
    IF how = "nonzero"
    THEN [status |-> Status("Prediction failed: ", "e.stderr"), df |-> EmptyDataFrame]
    ELSE IF how = "launch_error"
    THEN [status |-> Status("Prediction failed: ", "str(e)"), df |-> EmptyDataFrame]
    ELSE IF Exists(disk.csv, output_csv)
    THEN IF Len(Read(disk.csv, output_csv).columns) = 0
         THEN [status |-> Status("Prediction failed: ", "str(e)"), df |-> EmptyDataFrame]
         ELSE [status |-> Status("Prediction completed successfully!", ""),
               df |-> Read(disk.csv, output_csv)]
    ELSE [status |-> Status("Prediction completed but no output file was generated.", ""),
          df |-> EmptyDataFrame]

----------------------------------------------------------------------------
\* The results tables the scorer may hand over

Seqs(S, n) == UNION {[1..k -> S] : k \in 0..n}

MutCode(wt, pos, aa) == <<wt>> \o pos \o <<aa>>

M1A  == MutCode("M", <<"1">>, "A")
M1C  == MutCode("M", <<"1">>, "C")
A2K  == MutCode("A", <<"2">>, "K")
A1A  == MutCode("A", <<"1">>, "A")      \* wild type = substitution
K2X  == MutCode("K", <<"2">>, "X")      \* substitution outside the 20 letters
C1M  == MutCode("C", <<"1">>, "M")      \* another wild type at position 1
A03C == MutCode("A", <<"0","3">>, "C")  \* leading zero
A0C  == MutCode("A", <<"0">>, "C")      \* position zero
AsupC == MutCode("A", <<SupTwo>>, "C")  \* position written as a superscript two

\* (mutation code, score) pairs a freely composed table draws its rows from
RowChoices ==
    { <<M1A, 9000>>, <<M1C, 1000>>, <<A2K, 9000>>, <<A1A, 5000>>,
      <<K2X, -1234>>, <<C1M, 1004>>, <<M1A, 1000>>, <<A03C, 9000>>,
      <<NaNCell, 5000>>, <<A0C, 5000>>, <<AsupC, 5000>> }

\* header shapes: the usual one, and four that differ from it
UsualColumns == <<S_mutant, S_score>>
OtherColumns ==
    { <<S_mutation, S_esmScore>>,      \* no 'mutant' column
      <<S_mutant, S_pred>>,            \* no column named like a score
      <<S_mutant>>,                    \* a single column
      <<S_mutant, S_pred, S_esmScore>> \* score in the third column
    }

\* the cells of a (code, score) pair under a header shape
RowUnder(cols, pair) ==
    IF Len(cols) = 1 THEN <<pair[1]>>
    ELSE IF Len(cols) = 2 THEN pair
    ELSE <<pair[1], 0, pair[2]>>

TableUnder(cols, pairs) ==
    DataFrame(cols, List([k \in 1..Len(pairs) |-> RowUnder(cols, pairs[k])]))

\* a scan table: one valid substitution per position 1..len, best first;
\* with paired = TRUE consecutive positions share their score
ScanTable(len, paired) ==
    DataFrame(UsualColumns,
        List([p \in 1..len |->
            << MutCode(x_labels[((p - 1) % 20) + 1], IntToStr(p),
                       x_labels[(p % 20) + 1]),
               20000 - 100 * (IF paired THEN (p + 1) \div 2 ELSE p) >>]))

\* end-to-end scenario A: M1A=0.9, M1C=0.1, A2K=0.9
ScenarioA == TableUnder(UsualColumns, << <<M1A, 9000>>, <<M1C, 1000>>, <<A2K, 9000>> >>)

FreeTables ==
    {TableUnder(UsualColumns, ps) : ps \in Seqs(RowChoices, MaxRows)}
    \cup {TableUnder(cols, ps) : cols \in OtherColumns,
                                 ps \in Seqs(RowChoices, MaxRows - 1)}
    \cup {EmptyDataFrame}

ScanTables == {ScanTable(len, paired) : len \in 1..MaxScanLen, paired \in BOOLEAN}

TableUniverse == FreeTables \cup ScanTables

----------------------------------------------------------------------------
\* The tab: handle_prediction_with_ai, expand_heatmap, collapse_heatmap

\* what the scorer may leave in its output file: a table, or (as
\* EmptyDataFrame) a file without a header line
ScorerOutputs ==
    { ScenarioA,
      TableUnder(UsualColumns, <<>>),
      TableUnder(UsualColumns, << <<A1A, 5000>>, <<M1C, 1000>> >>),
      TableUnder(UsualColumns, << <<M1A, 9000>>, <<A0C, 5000>> >>),
      TableUnder(UsualColumns, << <<M1A, 9000>>, <<AsupC, 5000>> >>),
      TableUnder(<<S_mutation, S_esmScore>>, << <<M1A, 9000>> >>),
      TableUnder(<<S_mutant, S_pred>>, << <<M1A, 9000>> >>),
      ScanTable(SummaryCap + 1, FALSE),
      EmptyDataFrame }

\* values of the API key textbox
UserKeys == { <<>>, <<" ">>, <<"s","k">> }
\* values of the environment variable
EnvKeys == { None, Some(<<>>), Some(<<"e","n","v">>) }
\* values of the model dropdown (its choices come from the caller's
\* configuration, so a name may be missing from MODEL_MAPPING)
ModelNames == { "", "ESM-1v", "unlisted" }

Other(t) == CHOOSE o \in ModelTypes : o # t

Text(first, rest) == <<first, rest>>

InitialUi ==
    [status |-> Status("", ""), plot |-> None, df_out |-> None,
     download_visible |-> FALSE, download_value |-> None, zip_state |-> None,
     view_controls |-> FALSE, expand_btn |-> TRUE, collapse_btn |-> FALSE,
     full_data_state |-> None,
     ai_out |-> Text("A", "I analysis will appear here...")]

\* the outputs list of predict_btn.click (lines 396, 406) set from one
\* yielded tuple; gr.update(visible=v) leaves the download value alone
Yield(u, status, plot, df_out, dl_visible, zip, vc_visible, full_df, ai_out) ==
    [u EXCEPT !.status = status, !.plot = plot, !.df_out = df_out,
              !.download_visible = dl_visible,
              !.download_value = IF zip = None THEN @ ELSE zip,
              !.zip_state = zip, !.view_controls = vc_visible,
              !.full_data_state = full_df, !.ai_out = ai_out]

NoRun ==
    [stage |-> "none", how |-> "", wrote |-> FALSE,
     status |-> Status("", ""), df |-> EmptyDataFrame,
     enable_ai |-> FALSE, api_key |-> None, prompt |-> None, reply |-> None,
     ai_summary |-> Text("", ""), bundle |-> {}]

NoLocals ==
    [model_name |-> "", enable_ai |-> FALSE, ai_model |-> "",
     user_api_key |-> <<>>, output_csv |-> OutputCsvPath("", 0),
     how |-> "", wrote |-> FALSE,
     status |-> Status("", ""), df |-> EmptyDataFrame,
     summary_fig |-> None, total_residues |-> 0]

\* what the export leaves: the files on disk, the paths it wrote, the entry
\* names of the archive at zip_path, the report text and the final yield
Zipped(disk, zip_path, paths, ai_summary, u) ==
    [fs |-> disk, paths |-> paths,
     bundle |-> {e.arcname : e \in Read(disk.zip, zip_path)},
     ai_summary |-> ai_summary, ui |-> u]

\* Lines 282-298 once the full figure is built: the files written, the
\* archive and the final yield.  r holds the run's locals, now the clock.
\* Returns the new files, the paths written, the bundle and the final yield.
ExportFiles(t, r, u, files, now, ai_summary, full_fig) ==
    LET csv_path     == CsvPath(t, now)
        heatmap_path == HeatmapPath(t, now)
        report_path  == ReportPath(t, now)
        zip_path     == ZipPath(t, now)
        with_report  == ReportIsWritten(ai_summary)
        files_to_zip ==
            { <<csv_path, "prediction_results.csv">>,
              <<heatmap_path, "prediction_heatmap.html">> }
            \cup (IF with_report THEN { <<report_path, "AI_Analysis_Report.md">> } ELSE {})
        written_files ==
            [files EXCEPT !.csv = Write(@, csv_path, r.df),
                          !.html = Write(@, heatmap_path, full_fig),
                          !.md = IF with_report THEN Write(@, report_path, ai_summary)
                                 ELSE @]
        final_status ==
            IF ~r.enable_ai THEN r.status
            ELSE Status("Prediction and AI analysis complete!", "")
    IN  Zipped(create_zip_archive(written_files, files_to_zip, zip_path), zip_path,
               {csv_path, heatmap_path, zip_path}
                   \cup (IF with_report THEN {report_path} ELSE {}),
               ai_summary,
               Yield(u, final_status, r.summary_fig, Some(r.df), TRUE, Some(zip_path),
                     r.total_residues > SummaryCap, Some(r.df), ai_summary))

\* Lines 281-298: the export
Export(t, r, u, files, now, ai_summary) ==
    ExportFiles(t, r, u, files, now, ai_summary,
                generate_plotly_heatmap(prepare_plotly_heatmap_data(r.df, None),
                                        FALSE, r.total_residues))

\* the run has ended with the export ex
Exported(ex) ==
    [pc |-> "idle", stage |-> "final", fs |-> ex.fs, paths |-> ex.paths,
     bundle |-> ex.bundle, run |-> NoLocals, ai_summary |-> ex.ai_summary,
     ui |-> ex.ui]

\* Lines 252-279 once the residues are counted and the summary data is
\* built, and on to the export when AI is not enabled
AfterCounted(t, r, u, files, now, total, data) ==
    IF total < 0 \/ data.tag \in {"KeyError", "ValueError"}
    THEN \* KeyError or ValueError: the handler raises, no output is updated
         [pc |-> "idle", stage |-> "raised", fs |-> files, paths |-> {},
          bundle |-> {}, run |-> NoLocals, ai_summary |-> Text("", ""), ui |-> u]
    ELSE IF data.tag = "none"
    THEN [pc |-> "idle", stage |-> "no_score_col", fs |-> files, paths |-> {},
          bundle |-> {}, run |-> NoLocals, ai_summary |-> Text("", ""),
          ui |-> Yield(u, r.status, Some(TitledFigure("Score column not found")),
                       Some(r.df), FALSE, None, FALSE, Some(r.df),
                       Text("S", "core column not found."))]
    ELSE IF r.enable_ai
    THEN [pc |-> "ai", stage |-> "summarizing", fs |-> files, paths |-> {},
          bundle |-> {},
          run |-> [r EXCEPT !.summary_fig =
                                Some(generate_plotly_heatmap(data, TRUE, total)),
                            !.total_residues = total],
          ai_summary |-> Text("", ""),
          ui |-> Yield(u, Status("Prediction complete. Generating AI summary...", ""),
                       Some(generate_plotly_heatmap(data, TRUE, total)),
                       Some(r.df), FALSE, None, total > SummaryCap,
                       Some(r.df), Text("A", "I is analyzing the results..."))]
    ELSE Exported(Export(t, [r EXCEPT !.summary_fig =
                                         Some(generate_plotly_heatmap(data, TRUE, total)),
                                      !.total_residues = total],
                         u, files, now, NotEnabledText))

\* Lines 250-279 and, when AI is not enabled, on to the export: what the run
\* does once run_zero_shot_prediction has returned (status, df).
AfterPrediction(t, r, u, files, now) ==
    IF IsEmpty(r.df)
    THEN [pc |-> "idle", stage |-> "no_results", fs |-> files, paths |-> {},
          bundle |-> {}, run |-> NoLocals, ai_summary |-> Text("", ""),
          ui |-> Yield(u, r.status, Some(TitledFigure("No results generated")),
                       Some(EmptyDataFrame), FALSE, None, FALSE, None,
                       Text("N", "o results to analyze."))]
    ELSE AfterCounted(t, r, u, files, now, get_total_residues_count(r.df),
                      prepare_plotly_heatmap_data(r.df, Some(SummaryCap)))

Init ==
    /\ clock = 0
    /\ getenv \in EnvKeys
    /\ fs = NoFiles
    /\ pc = [t \in ModelTypes |-> "idle"]
    /\ run = [t \in ModelTypes |-> NoLocals]
    /\ ui = [t \in ModelTypes |-> InitialUi]
    /\ last = [t \in ModelTypes |-> NoRun]
    /\ written = [t \in ModelTypes |-> {}]
    /\ overlap = FALSE
    /\ runs = 0
    /\ table = EmptyDataFrame
    /\ summary = None
    /\ full = None
    /\ prompt = None

\* time passes
Tick ==
    /\ clock < MaxClock
    /\ clock' = clock + 1
    /\ UNCHANGED <<getenv, fs, pc, run, ui, last, written, overlap, runs>>
    /\ UNCHANGED fnvars

\* predict_btn.click with nothing selected: lines 243-245
PredictRejected(t, model_name, has_file) ==
    /\ pc[t] = "idle"
    /\ model_name = "" \/ ~has_file
    /\ ui' = [ui EXCEPT ![t] =
                Yield(@, Status("Error: Model and file are required.", ""),
                      None, None, FALSE, None, FALSE, None,
                      Text("P", "lease select a model and upload a file."))]
    /\ UNCHANGED <<clock, getenv, fs, pc, run, last, written, overlap, runs>>
    /\ UNCHANGED fnvars

\* predict_btn.click: lines 243-248 and run_zero_shot_prediction up to the
\* start of the scoring process (lines 132-136).  A model name missing from
\* MODEL_MAPPING raises KeyError inside the try block, which ends the run.
Predict(t, model_name, enable_ai, ai_model, user_api_key) ==
    /\ pc[t] = "idle"
    /\ runs < MaxRuns
    /\ model_name # ""
    /\ runs' = runs + 1
    /\ overlap' = (pc[Other(t)] # "idle")
    /\ LET running == Yield(ui[t], Status("Running {model_type} prediction...", t),
                            None, None, FALSE, None, FALSE, None,
                            Text("P", "rediction in progress..."))
           r == [NoLocals EXCEPT !.model_name = model_name, !.enable_ai = enable_ai,
                                 !.ai_model = ai_model, !.user_api_key = user_api_key,
                                 !.output_csv = OutputCsvPath(t, clock)]
       IN
       IF model_name \in MODEL_MAPPING
       THEN /\ pc' = [pc EXCEPT ![t] = "scoring"]
            /\ run' = [run EXCEPT ![t] = r]
            /\ ui' = [ui EXCEPT ![t] = running]
            /\ last' = [last EXCEPT ![t] = [NoRun EXCEPT !.stage = "scoring",
                                                         !.enable_ai = enable_ai]]
            /\ written' = [written EXCEPT ![t] = {}]
            /\ UNCHANGED fs
       ELSE LET res == PredictionResult("launch_error", fs, r.output_csv)
            IN  \E nxt \in {AfterPrediction(t, [r EXCEPT !.status = res.status,
                                                         !.df = res.df],
                                             running, fs, clock)} :
                /\ pc' = [pc EXCEPT ![t] = nxt.pc]
                /\ run' = [run EXCEPT ![t] = nxt.run]
                /\ ui' = [ui EXCEPT ![t] = nxt.ui]
                /\ last' = [last EXCEPT ![t] =
                              [NoRun EXCEPT !.stage = nxt.stage, !.how = "launch_error",
                                            !.status = res.status, !.df = res.df,
                                            !.enable_ai = enable_ai]]
                /\ written' = [written EXCEPT ![t] = {}]
                /\ UNCHANGED fs
    /\ UNCHANGED <<clock, getenv>>
    /\ UNCHANGED fnvars

\* The scoring process ends (subprocess.run returns or raises), having
\* written output or not, and the run goes on to its next suspension point:
\* lines 136-142 and 250-267, and on to line 298 when AI is not enabled.
ScorerExit(t, how, output) ==
    /\ pc[t] = "scoring"
    /\ how = "launch_error" => output = None
    /\ LET r0  == run[t]
           fs1 == IF output = None THEN fs
                  ELSE [fs EXCEPT !.csv = Write(@, r0.output_csv, output[1])]
           res == PredictionResult(how, fs1, r0.output_csv)
           r   == [r0 EXCEPT !.status = res.status, !.df = res.df,
                             !.how = how, !.wrote = (output # None)]
       IN  \E nxt \in {AfterPrediction(t, r, ui[t], fs1, clock)} :
           /\ pc' = [pc EXCEPT ![t] = nxt.pc]
           /\ run' = [run EXCEPT ![t] = nxt.run]
           /\ ui' = [ui EXCEPT ![t] = nxt.ui]
           /\ fs' = nxt.fs
           /\ last' = [last EXCEPT ![t] =
                         [@ EXCEPT !.stage = nxt.stage, !.how = how,
                                   !.wrote = (output # None),
                                   !.status = res.status, !.df = res.df,
                                   !.ai_summary = nxt.ai_summary,
                                   !.bundle = nxt.bundle]]
           /\ written' = [written EXCEPT ![t] =
                            @ \cup (IF output = None THEN {} ELSE {r0.output_csv})
                              \cup nxt.paths]
    /\ UNCHANGED <<clock, getenv, overlap, runs>>
    /\ UNCHANGED fnvars

\* The summarizer stage ends: lines 268-298 (the prompt is built and sent
\* when there is a key).  reply is what the API call
\* gave: None when the request failed, else Some(content).
Summarized(t, reply) ==
    /\ pc[t] = "ai"
    /\ LET r       == run[t]
           api_key == get_api_key(r.ai_model, r.user_api_key, getenv)
           ai_summary == IF api_key = None THEN NoApiKeyText ELSE call_ai_api(reply)
       IN  \E ex \in {Export(t, r, ui[t], fs, clock, ai_summary)} :
           /\ api_key = None => reply = None
           /\ pc' = [pc EXCEPT ![t] = "idle"]
           /\ run' = [run EXCEPT ![t] = NoLocals]
           /\ ui' = [ui EXCEPT ![t] = ex.ui]
           /\ fs' = ex.fs
           /\ last' = [last EXCEPT ![t] =
                         [@ EXCEPT !.stage = "final", !.api_key = api_key,
                                   !.prompt =
                                       IF api_key = None THEN None
                                       ELSE Some(generate_mutation_ai_prompt(
                                                     r.df, r.model_name)),
                                   !.reply = reply, !.ai_summary = ai_summary,
                                   !.bundle = ex.bundle]]
           /\ written' = [written EXCEPT ![t] = @ \cup ex.paths]
    /\ UNCHANGED <<clock, getenv, overlap, runs>>
    /\ UNCHANGED fnvars

\* expand_btn.click: expand_heatmap(full_data_state), outputs plot_out,
\* expand_btn, collapse_btn.  The button can be clicked when it and its row
\* are visible.
Expand(t) ==
    /\ ui[t].view_controls /\ ui[t].expand_btn
    /\ LET full_df == ui[t].full_data_state IN
       IF full_df = None \/ IsEmpty(full_df[1])
       THEN ui' = [ui EXCEPT ![t].plot = Some(BlankFigure),
                             ![t].expand_btn = TRUE, ![t].collapse_btn = FALSE]
       ELSE LET data == prepare_plotly_heatmap_data(full_df[1], None) IN
            IF data.tag \in {"KeyError", "ValueError"}
               \/ get_total_residues_count(full_df[1]) < 0
            THEN UNCHANGED ui
            ELSE ui' = [ui EXCEPT
                    ![t].plot = Some(generate_plotly_heatmap(
                                    data, FALSE, get_total_residues_count(full_df[1]))),
                    ![t].expand_btn = FALSE, ![t].collapse_btn = TRUE]
    /\ UNCHANGED <<clock, getenv, fs, pc, run, last, written, overlap, runs>>
    /\ UNCHANGED fnvars

\* collapse_btn.click: collapse_heatmap(full_data_state)
Collapse(t) ==
    /\ ui[t].view_controls /\ ui[t].collapse_btn
    /\ LET full_df == ui[t].full_data_state IN
       IF full_df = None \/ IsEmpty(full_df[1])
       THEN ui' = [ui EXCEPT ![t].plot = Some(BlankFigure),
                             ![t].expand_btn = TRUE, ![t].collapse_btn = FALSE]
       ELSE LET data == prepare_plotly_heatmap_data(full_df[1], Some(SummaryCap)) IN
            IF data.tag \in {"KeyError", "ValueError"}
               \/ get_total_residues_count(full_df[1]) < 0
            THEN UNCHANGED ui
            ELSE ui' = [ui EXCEPT
                    ![t].plot = Some(generate_plotly_heatmap(
                                    data, TRUE, get_total_residues_count(full_df[1]))),
                    ![t].expand_btn = TRUE, ![t].collapse_btn = FALSE]
    /\ UNCHANGED <<clock, getenv, fs, pc, run, last, written, overlap, runs>>
    /\ UNCHANGED fnvars

\* The two tabs are wired to the same handlers (lines 316-409).  Spec follows
\* one tab with every input; SpecPair follows both tabs running at the same
\* time.
OneTab == {"sequence"}

\* the API key textbox is read only when AI is enabled
KeysFor(enable_ai) == IF enable_ai THEN UserKeys ELSE { <<>> }

\* what the scoring process leaves behind: nothing when it could not be
\* launched, nothing or a table when it crashed, nothing or any content
\* when it exited cleanly
OutputsFor(how) ==
    IF how = "launch_error" THEN {None}
    ELSE IF how = "nonzero" THEN {None, Some(ScenarioA)}
    ELSE {None} \cup {Some(c) : c \in ScorerOutputs}

Next ==
    \/ Tick
    \/ \E t \in OneTab, m \in ModelNames, f \in BOOLEAN : PredictRejected(t, m, f)
    \/ \E t \in OneTab, m \in ModelNames, e \in BOOLEAN, a \in AIProviders :
          \E k \in KeysFor(e) : Predict(t, m, e, a, k)
    \/ \E t \in OneTab, how \in {"launch_error", "nonzero", "clean"} :
          \E o \in OutputsFor(how) : ScorerExit(t, how, o)
    \/ \E t \in OneTab, reply \in {None} \cup {Some(c) : c \in ApiReplies} :
          Summarized(t, reply)
    \/ \E t \in OneTab : Expand(t)
    \/ \E t \in OneTab : Collapse(t)

Spec == Init /\ [][Next]_vars

\* Both tabs, whose runs may overlap: the steps of a run that write files,
\* with a scoring process that exits cleanly, one table and one API key
InitPair == Init /\ getenv = None

\* what the scoring process leaves in SpecPair: nothing, the table of
\* scenario A, or a header without rows
PairOutputs == {None, Some(ScenarioA), Some(TableUnder(UsualColumns, <<>>))}

NextPair ==
    \/ Tick
    \/ \E t \in ModelTypes, e \in BOOLEAN :
          Predict(t, "ESM-1v", e, "DeepSeek", <<"s","k">>)
    \/ \E t \in ModelTypes, o \in PairOutputs : ScorerExit(t, "clean", o)
    \/ \E t \in ModelTypes, reply \in {None} \cup {Some(c) : c \in ApiReplies} :
          Summarized(t, reply)

SpecPair == InitPair /\ [][NextPair]_vars

----------------------------------------------------------------------------
\* Harness for the pure functions: a table is drawn, then the Matrix Builder
\* (capped and uncapped) and the Prompt Builder are applied to it, as the
\* handler does at lines 255, 273 and 277.  They are applied once: the
\* functions are pure, a repeated call returns the same value.

\* caps the Matrix Builder is called with in the harness
Caps == {2, SummaryCap}

InitFn ==
    /\ table \in TableUniverse
    /\ summary = None
    /\ full = None
    /\ prompt = None
    /\ clock = 0
    /\ getenv = None
    /\ fs = NoFiles
    /\ pc = [t \in ModelTypes |-> "idle"]
    /\ run = [t \in ModelTypes |-> NoLocals]
    /\ ui = [t \in ModelTypes |-> InitialUi]
    /\ last = [t \in ModelTypes |-> NoRun]
    /\ written = [t \in ModelTypes |-> {}]
    /\ overlap = FALSE
    /\ runs = 0

\* the views of the table are built (the summary view with cap K, the full
\* view) and its prompt
Build(K) ==
    /\ summary = None
    /\ summary' = Some([cap |-> K, data |-> prepare_plotly_heatmap_data(table, Some(K))])
    /\ full' = Some(prepare_plotly_heatmap_data(table, None))
    /\ prompt' = Some(generate_mutation_ai_prompt(table, "ESM-1v"))
    /\ UNCHANGED table
    /\ UNCHANGED appvars

NextFn == \E K \in Caps : Build(K)

SpecFn == InitFn /\ [][NextFn]_vars

----------------------------------------------------------------------------
\* Claims about the binner, the matrix builder and the prompt builder
\* (checked under SpecFn)

\* the Matrix Builder calls made so far, each with the cap it was given
Calls ==
    (IF summary = None THEN {}
     ELSE {[cap |-> Some(summary[1].cap), data |-> summary[1].data]})
    \cup (IF full = None THEN {} ELSE {[cap |-> None, data |-> full[1]]})

\* the calls that returned matrices built from at least one valid row
OkCalls == {c \in Calls : c.data.tag = "ok"}

\* distinct positions of the valid rows of a table with a 'mutant' column
ValidPositions(df) ==
    LET mcol == ColIndex(df, S_mutant)
    IN  {StrToInt(SubSeq(df.rows[i][mcol], 2, Len(df.rows[i][mcol]) - 1)) :
            i \in {k \in 1..Len(df.rows) : IsValidMutation(df.rows[k][mcol])}}

Ranks(frame) == [k \in 1..Len(frame) |-> frame[k].rank]
Bins(frame)  == [k \in 1..Len(frame) |-> frame[k].inverted_rank_bin]

\* C1 as stated: every row of rank 1 receives bin 10, and in scenario A the
\* ranks are M1A:1, M1C:3, A2K:1 with bin 10 for rank 1 and a bin <= 4 for
\* rank 3.
C1_RankOneGetsBinTen ==
    \A c \in OkCalls :
        LET f == c.data.frame IN
        /\ \A k \in 1..Len(f) : f[k].rank = 1 => f[k].inverted_rank_bin = 10
        /\ table = ScenarioA =>
              /\ Ranks(f) = <<1, 3, 1>>
              /\ Bins(f)[1] = 10 /\ Bins(f)[3] = 10 /\ Bins(f)[2] <= 4

\* C1 amended: with N valid rows some row has rank 1, and every row of rank 1
\* receives bin 11 - min(10, ceil(10 / N)), which is 10 exactly when N >= 10;
\* in scenario A the ranks are M1A:1, M1C:3, A2K:1, the rank-1 rows get bin 7
\* and the rank-3 row gets bin 1.
C1_RankOneBin ==
    \A c \in OkCalls :
        LET f == c.data.frame
            n == Len(f)
        IN
        /\ n >= 1
        /\ \E k \in 1..n : f[k].rank = 1
        /\ \A k \in 1..n : f[k].rank = 1 =>
              /\ f[k].inverted_rank_bin = 10 <=> n >= 10
              /\ n < 10 => f[k].inverted_rank_bin = 11 - ((10 + n - 1) \div n)
        /\ table = ScenarioA =>
              /\ Ranks(f) = <<1, 3, 1>>
              /\ Bins(f) = <<7, 1, 7>>

\* C1 witness: scenario A has been binned; its rank-1 rows hold bin 7
C1_Witness ==
    /\ table = ScenarioA
    /\ full # None
    /\ full[1].tag = "ok"
    /\ full[1].frame[1].rank = 1
    /\ full[1].frame[1].inverted_rank_bin = 7

\* C2: every percentile bin of a ranked row and every set cell of the bin
\* matrix is a whole number in 1..10, also when fewer than 10 rows are valid.
C2_BinsInRange ==
    \A c \in OkCalls :
        /\ \A k \in 1..Len(c.data.frame) :
              c.data.frame[k].inverted_rank_bin \in 1..10
        /\ \A i \in 1..Len(c.data.z_data) : \A j \in 1..Len(c.data.z_data[i]) :
              c.data.z_data[i][j] # NaN => c.data.z_data[i][j][1] \in 1..10

\* C2 witness: fewer than 10 valid rows (bin width below 1), binned into
\* different bins and laid out in the bin matrix
C2_Witness ==
    \E c \in OkCalls :
        /\ Len(c.data.frame) \in 2..9
        /\ \E k, l \in 1..Len(c.data.frame) :
              c.data.frame[k].inverted_rank_bin # c.data.frame[l].inverted_rank_bin
        /\ \E i \in 1..Len(c.data.z_data) : \E j \in 1..Len(c.data.z_data[i]) :
              c.data.z_data[i][j] # NaN

\* C3: the ranked rows are the valid rows of the table, and a row's rank is
\* one plus the number of valid rows with a strictly greater score; so equal
\* scores have equal rank, a greater score has a smaller rank and the best
\* score has rank 1.
C3_CompetitionRanking ==
    \A c \in OkCalls :
        LET f     == c.data.frame
            mcol  == ColIndex(table, S_mutant)
            scol  == FirstScoreColumn(table)[1]
            valid == {i \in 1..Len(table.rows) : IsValidMutation(table.rows[i][mcol])}
        IN
        /\ Len(f) = Cardinality(valid)
        /\ \A k \in 1..Len(f) :
              /\ f[k].rank = 1 + Cardinality({i \in valid : table.rows[i][scol] > f[k].score})
              /\ (\A j \in 1..Len(f) : f[j].score <= f[k].score) => f[k].rank = 1
              /\ \A j \in 1..Len(f) :
                    /\ f[k].score = f[j].score => f[k].rank = f[j].rank
                    /\ f[k].score > f[j].score => f[k].rank < f[j].rank

\* C3 witness: two rows tied at rank 1 and a lower score at rank 3
C3_Witness ==
    \E c \in OkCalls :
        LET f == c.data.frame IN
        /\ \E k, j, l \in 1..Len(f) :
              /\ k # j /\ f[k].rank = 1 /\ f[j].rank = 1
              /\ f[l].rank = 3

\* the shape, and the row labels, a call with at least one retained position
\* is stated to have: min(K, D) or D rows of 20 columns, labelled by the
\* retained positions in ascending order
ShapeAsStated(c) ==
    LET d    == c.data
        all  == Sorted(ValidPositions(table))
        want == IF c.cap = None THEN Len(all) ELSE Min(c.cap[1], Len(all))
    IN
    /\ Shape(d.z_data) = <<want, 20>>
    /\ Shape(d.rank_matrix) = Shape(d.z_data)
    /\ Shape(d.score_matrix) = Shape(d.z_data)
    /\ Len(d.x_labels) = 20
    /\ Len(d.y_labels) = want
    /\ \A i \in 1..Len(d.y_labels) :
          SubSeq(d.y_labels[i], 2, Len(d.y_labels[i])) = IntToStr(all[i])

\* C4 as stated: for every table whose score column is found, the matrices
\* returned have the stated shape.
C4_ShapeForEveryScoredTable ==
    \A c \in Calls : c.data.tag \in {"ok", "empty"} => ShapeAsStated(c)

\* C4 amended: the stated shape holds for every table whose score column is
\* found and that has at least one valid mutation row; with no valid row the
\* three arrays returned are the same-shaped empty 1 x 0 arrays and both label
\* lists are empty.
C4_Shape ==
    \A c \in Calls :
        /\ c.data.tag = "ok" => ShapeAsStated(c)
        /\ c.data.tag = "empty" =>
              /\ ValidPositions(table) = {}
              /\ Shape(c.data.z_data) = <<1, 0>>
              /\ Shape(c.data.rank_matrix) = <<1, 0>>
              /\ Shape(c.data.score_matrix) = <<1, 0>>
              /\ c.data.x_labels = <<>> /\ c.data.y_labels = <<>>

\* C4 witness: a capped call on a table with more distinct valid positions
\* than the cap of the summary view
C4_Witness ==
    /\ summary # None
    /\ summary[1].cap = SummaryCap
    /\ summary[1].data.tag = "ok"
    /\ Cardinality(ValidPositions(table)) > SummaryCap
    /\ Len(summary[1].data.z_data) = SummaryCap

\* the cell of matrix m for position pos and residue aa, when both are on
\* the axes of the call's matrices
CellAt(d, m, pos, aa) == m[y_map(d.positions, pos)][x_map(aa)]

OnAxes(d, pos, aa) == y_map(d.positions, pos) # 0 /\ x_map(aa) # 0

C6_SummaryAgreesWithFull ==
    (summary # None /\ full # None /\ summary[1].data.tag = "ok") =>
        LET s == summary[1].data
            f == full[1]
        IN
        /\ f.tag = "ok"
        /\ \A i \in 1..Len(s.positions) :
              LET fi == y_map(f.positions, s.positions[i]) IN
              /\ fi # 0
              /\ \A j \in 1..Len(x_labels) :
                    /\ s.z_data[i][j] = f.z_data[fi][j]
                    /\ s.rank_matrix[i][j] = f.rank_matrix[fi][j]
                    /\ s.score_matrix[i][j] = f.score_matrix[fi][j]

\* C6 witness: the K=40 summary and the full view of a table with more than
\* 40 positions, so that the summary drops rows of the full view
C6_Witness ==
    /\ summary # None /\ full # None
    /\ summary[1].cap = SummaryCap
    /\ summary[1].data.tag = "ok" /\ full[1].tag = "ok"
    /\ Len(summary[1].data.z_data) < Len(full[1].z_data)
    /\ \E j \in 1..Len(x_labels) : summary[1].data.rank_matrix[SummaryCap][j] # NaN

Resolvable(df) ==
    Len(df.columns) >= 1 /\ (FirstScoreColumn(df) # None \/ Len(df.columns) >= 2)

\* the score column of a resolvable table: named like a score, else the second
ResolvedScoreColumn(df) ==
    IF FirstScoreColumn(df) # None THEN df.columns[FirstScoreColumn(df)[1]]
    ELSE df.columns[2]

\* C12: for every table shape no stage fails by indexing an absent column
\* (residue counting and the Matrix Builder raise no KeyError); the Matrix
\* Builder and the Prompt Builder give their explicit no-data / None result
\* exactly when no mutation or score column can be resolved, and otherwise
\* use the column named like a score, else the second column.
C12_ColumnsResolvedNeverIndexedAbsent ==
    summary # None =>
        /\ get_total_residues_count(table) # -1
        /\ \A c \in Calls :
              /\ c.data.tag # "KeyError"
              /\ c.data.tag = "none" <=> ~Resolvable(table)
              /\ c.data.tag \in {"ok", "empty"} =>
                    c.data.score_col = ResolvedScoreColumn(table)
        /\ prompt[1].tag = "None" <=> ~Resolvable(table)
        /\ prompt[1].tag = "prompt" => prompt[1].score_col = ResolvedScoreColumn(table)

----------------------------------------------------------------------------
\* Claims about the runs of the tab (checked under Spec and SpecPair)

\* the tabs whose latest run has returned from run_zero_shot_prediction
Returned == {t \in ModelTypes : last[t].stage \notin {"none", "scoring"}}

\* the tabs whose latest run has ended
Ended == {t \in Returned : last[t].stage # "summarizing"}

FailedMsg == "Prediction failed: "
NoOutputMsg == "Prediction completed but no output file was generated."
SuccessMsg == "Prediction completed successfully!"

\* C8: run_zero_shot_prediction returns the failure status and an empty
\* table when the scoring process could not be launched or exited non-zero,
\* the "completed but no output" status and an empty table when the process
\* exited cleanly without writing its output file in this invocation, and
\* the success status only when this invocation's process wrote its output.
C8_OutcomeClassified ==
    \A t \in Returned :
        /\ last[t].how \in {"launch_error", "nonzero"} =>
              last[t].status.msg = FailedMsg /\ IsEmpty(last[t].df)
        /\ (last[t].how = "clean" /\ ~last[t].wrote) =>
              last[t].status.msg = NoOutputMsg /\ IsEmpty(last[t].df)
        /\ last[t].status.msg = SuccessMsg => last[t].wrote

\* C9: a sequence-based run and a structure-based run that overlap in time
\* write no file in common.
C9_NoSharedFile ==
    overlap => written["sequence"] \cap written["structure"] = {}

ReportEntry == "AI_Analysis_Report.md"

\* C10: a run whose scoring gave a non-empty table with a score column ends
\* in its final stage with a bundle holding prediction_results.csv and
\* prediction_heatmap.html; the bundle holds AI_Analysis_Report.md only when
\* the summarizer was called and replied, and without a credential the report
\* text is the "no API key" placeholder and the bundle has no report entry.
C10_BundleWhateverSummarizer ==
    \A t \in Ended :
        (~IsEmpty(last[t].df) /\ FirstScoreColumn(last[t].df) # None) =>
            /\ last[t].stage = "final"
            /\ {"prediction_results.csv", "prediction_heatmap.html"} \subseteq last[t].bundle
            /\ ReportEntry \in last[t].bundle =>
                  last[t].enable_ai /\ last[t].api_key # None /\ last[t].reply # None
            /\ (last[t].enable_ai /\ last[t].api_key = None) =>
                  last[t].ai_summary = NoApiKeyText /\ ReportEntry \notin last[t].bundle

\* the tabs whose latest run got the success status and a table of zero rows
EmptySuccess ==
    {t \in Ended : /\ last[t].status.msg = SuccessMsg
                   /\ Len(last[t].df.rows) = 0}

\* C11 as stated: a run whose scoring succeeded with a table of zero rows
\* reaches the export and its bundle holds prediction_results.csv only.
C11_EmptyTableStillExports ==
    \A t \in EmptySuccess :
        last[t].stage = "final" /\ last[t].bundle = {"prediction_results.csv"}

\* C11: a run whose scoring succeeded with a table of zero rows ends at the
\* "No results generated" exit: it writes no file under temp_outputs and
\* makes no bundle; the Matrix Builder applied to that table (with its mutant
\* and score columns) gives empty labels and arrays without cells.
C11_EmptyTableEndsWithoutExport ==
    \A t \in EmptySuccess :
        /\ last[t].stage = "no_results"
        /\ last[t].bundle = {}
        /\ \A p \in written[t] : p.dir # "temp_outputs"
        /\ (HasColumn(last[t].df, S_mutant) /\ FirstScoreColumn(last[t].df) # None) =>
              \A cap \in {None, Some(SummaryCap)} :
                 LET d == prepare_plotly_heatmap_data(last[t].df, cap) IN
                 /\ d.tag = "empty"
                 /\ d.x_labels = <<>> /\ d.y_labels = <<>>
                 /\ Size(d.z_data) = 0 /\ Size(d.rank_matrix) = 0
                 /\ Size(d.score_matrix) = 0

C11_Witness ==
    \E t \in EmptySuccess :
        /\ last[t].how = "clean" /\ last[t].wrote
        /\ Len(last[t].df.columns) = 2
        /\ ui[t].plot = Some(TitledFigure("No results generated"))

\* a code <wild type><position><substitution> that fails the MutationCode
\* invariant as C13 words it: wild type equal to the substitution, or a
\* position that is not a positive integer
FailsInvariant(m) ==
    /\ Len(m) > 2
    /\ \/ m[1] = m[Len(m)]
       \/ ~IsDecimal(SubSeq(m, 2, Len(m) - 1))
       \/ StrToInt(SubSeq(m, 2, Len(m) - 1)) = 0

\* C13: in a run whose scoring gave a non-empty table with a mutant and a
\* score column, a row whose code fails the MutationCode invariant causes no
\* failure (the run reaches its final stage), is left out of the ranked rows
\* (and so of N and of the matrices) of both views, and is in the exported
\* prediction_results.csv, which holds the table unchanged.
C13_InvalidRowsDroppedNeverFatal ==
    \A t \in Ended :
        LET df == last[t].df IN
        (/\ last[t].status.msg = SuccessMsg /\ ~IsEmpty(df)
         /\ HasColumn(df, S_mutant) /\ FirstScoreColumn(df) # None) =>
            \A i \in 1..Len(df.rows) :
                LET m == df.rows[i][ColIndex(df, S_mutant)] IN
                FailsInvariant(m) =>
                    /\ last[t].stage = "final"
                    /\ \A cap \in {None, Some(SummaryCap)} :
                          LET d == prepare_plotly_heatmap_data(df, cap) IN
                          /\ d.tag \in {"ok", "empty"}
                          /\ \A k \in 1..Len(d.frame) : d.frame[k].mutant # m
                    /\ "prediction_results.csv" \in last[t].bundle
                    /\ \E q \in written[t] :
                          /\ q = CsvPath(t, q.ts)
                          /\ Exists(fs.csv, q) /\ Read(fs.csv, q) = df

\* the view the plot of a tab displays: "summary" or "full" for a heatmap,
\* "none" otherwise
Displayed(t) ==
    IF ui[t].plot = None THEN "none"
    ELSE IF ui[t].plot[1].kind # "heatmap" THEN "none"
    ELSE IF ui[t].plot[1].shown.partial THEN "summary" ELSE "full"

\* the toggle button a user sees (the row of the two buttons is visible)
VisibleButtons(t) ==
    IF ~ui[t].view_controls THEN {}
    ELSE (IF ui[t].expand_btn THEN {"Show Complete Heatmap"} ELSE {})
         \cup (IF ui[t].collapse_btn THEN {"Show Summary View"} ELSE {})

ViewAgreesWithButton(t) ==
    ui[t].view_controls =>
        /\ Displayed(t) = "summary" => VisibleButtons(t) = {"Show Complete Heatmap"}
        /\ Displayed(t) = "full" => VisibleButtons(t) = {"Show Summary View"}

\* C14: on each tab, whenever the toggle row is visible, a displayed summary
\* heatmap goes with the visible 'Show Complete Heatmap' button and a
\* displayed full heatmap with the visible 'Show Summary View' button; and a
\* step that changes the displayed view from summary to full or back is an
\* expand or a collapse of that tab.
C14_ViewMatchesToggle ==
    /\ [](\A t \in ModelTypes : ViewAgreesWithButton(t))
    /\ [][\A t \in ModelTypes :
            (/\ Displayed(t) # "none" /\ Displayed(t)' # "none"
             /\ Displayed(t)' # Displayed(t)) => (Expand(t) \/ Collapse(t))]_vars

====
